---- MODULE Spec2Model ----
(***************************************************************************)
(* Model of src/serve/tileserver/REST_mosaic.py: the UTM zone lookup       *)
(* (get_utm_zone) and one build of RESTMosaic.mosaic(): pixel indexer,     *)
(* availability masks, the fast-path decision, the alpha partition, the    *)
(* patch fetch loops and the raster writer.                                *)
(*                                                                         *)
(* Conventions.  Pixels are <<row, col>> pairs, 0-based as in numpy; row 0 *)
(* is the northern row of the buffer.  Scene positions ii are 0-based.     *)
(* Catalog ids are distinct (the remote catalog lists assets), so the dict *)
(* run_idx keeps one item per scene, in list order.  A fill fraction is    *)
(* kept as the pair (covered pixels, total pixels); `> 0.95` is decided by *)
(* cross-multiplication, which agrees with the float64 computation         *)
(* sum/Dy/Dx > 0.95 for every grid with Dx <= 44 and Dy <= 4.              *)
(* The value a scene holds at grid position (row, col) is GEE_pixel(id,    *)
(* row, col), an injective non-negative code, so that a misplaced or       *)
(* overwritten pixel shows in the buffer.  All bands of a pixel are read   *)
(* and written together, so the buffer keeps one value per pixel.          *)
(***************************************************************************)
EXTENDS Integers, FiniteSets, Sequences, Bags, TLC

\* ------------------------------------------------------------------ bounds
MaxDx == 3          \* widest grid of Spec
MaxDy == 2          \* tallest grid of Spec
MaxN == 2           \* most candidate scenes
WideDx == 40        \* the single-row grid of SpecWide
WidePatch == 16     \* its patch size
MaxCut == 2         \* SpecWide: most columns a footprint leaves uncovered
Res == 2            \* SpecUtm: coordinates in steps of 1/Res degree

PatchSizes == {2, 3}
NumBands == 3
NODATA == -1

VARIABLES
    pc,          \* position of the build
    PATCH_SIZE,  \* constructor parameter
    Dx, Dy,      \* pixel-grid dimensions
    image_ids,   \* ii -> scene id, in catalog order
    px_x, px_y,  \* pixel -> patch column / patch row
    mask_arr,    \* ii -> pixel -> 0/1 availability
    fills,       \* ii -> [sum, size] fill fraction
    do_id,       \* scene chosen by the fast path (0: none)
    alpha_mask,  \* ii -> pixel -> alpha value
    run_idx,     \* ii -> [id, vv]: the items of the dict, insertion order
    ii, vv,      \* _fill_mosaic: current item and its patches still to do
    ii_x, ii_y,  \* _fill_single_id: loop counters
    im_arr,      \* the mosaic buffer, pixel -> value
    calls,       \* bag of <<id, ii_x, ii_y>> remote getPixels calls
    writes,      \* pixel -> number of times the buffer pixel was assigned
    raster,      \* the output raster as declared / written by _write_rio
    error,       \* "none", or what made the build raise
    lat, lon,    \* get_utm_zone arguments, in units of 1/Res degree
    zone_str     \* get_utm_zone result (sequence of decimal digits)

buildVars == <<pc, PATCH_SIZE, Dx, Dy, image_ids, px_x, px_y, mask_arr, fills,
               do_id, alpha_mask, run_idx, ii, vv, ii_x, ii_y, im_arr, calls,
               writes, raster, error>>
utmVars == <<lat, lon, zone_str>>
vars == <<buildVars, utmVars>>

\* ----------------------------------------------------------- numpy helpers
Range(n) == 0 .. (n - 1)
MaxOf(S) == CHOOSE m \in S : \A k \in S : k <= m
MinOf(S) == CHOOSE m \in S : \A k \in S : m <= k
\* indices selected by a[lo:hi] on an axis of length len (0 <= lo)
Slice(lo, hi, len) == {k \in Range(len) : lo <= k /\ k < hi}
Pixels(dy, dx) == Range(dy) \X Range(dx)
Clip(v, lo, hi) == IF v < lo THEN lo ELSE IF v > hi THEN hi ELSE v

\* f[0] + ... + f[n-1]
RECURSIVE SumTo(_, _)
SumTo(f, n) == IF n = 0 THEN 0 ELSE f[n - 1] + SumTo(f, n - 1)
\* a.sum() of a (dy, dx) array
Sum2(a, dy, dx) == SumTo([r \in Range(dy) |-> SumTo([c \in Range(dx) |-> a[<<r, c>>]], dx)], dy)

\* ------------------------------------------------------------ get_utm_zone
\* int(): truncation toward zero of the quotient a/b (b > 0)
IntTrunc(a, b) == IF a >= 0 THEN a \div b ELSE -((-a) \div b)
\* str() of a non-negative integer below 100
Str(n) == IF n < 10 THEN <<n>> ELSE <<n \div 10, n % 10>>

\* mutant: the Svalbard bands closed at their upper longitude
get_utm_zone_closed(la, lo) ==
    LET dflt == Str(IntTrunc(lo + 180 * Res, 6 * Res) + 1) IN
    IF la >= 56 * Res /\ la < 64 * Res /\ lo >= 3 * Res /\ lo < 12 * Res
    THEN <<3, 2>>
    ELSE IF la >= 72 * Res /\ la < 84 * Res
    THEN IF lo >= 0 /\ lo <= 9 * Res THEN <<3, 1>>
         ELSE IF lo >= 9 * Res /\ lo <= 21 * Res THEN <<3, 3>>
         ELSE IF lo >= 21 * Res /\ lo <= 33 * Res THEN <<3, 5>>
         ELSE IF lo >= 33 * Res /\ lo <= 42 * Res THEN <<3, 7>>
         ELSE dflt
    ELSE dflt

get_utm_zone(la, lo) ==
    LET dflt == Str(IntTrunc(lo + 180 * Res, 6 * Res) + 1) IN
    IF la >= 56 * Res /\ la < 64 * Res /\ lo >= 3 * Res /\ lo < 12 * Res
    THEN <<3, 2>>
    ELSE IF la >= 72 * Res /\ la < 84 * Res
    THEN IF lo >= 0 /\ lo < 9 * Res THEN <<3, 1>>
         ELSE IF lo >= 9 * Res /\ lo < 21 * Res THEN <<3, 3>>
         ELSE IF lo >= 21 * Res /\ lo < 33 * Res THEN <<3, 5>>
         ELSE IF lo >= 33 * Res /\ lo < 42 * Res THEN <<3, 7>>
         ELSE dflt
    ELSE dflt

\* ------------------------------------------------------ pure build helpers
\* mutant: range(D // P), the partial last patch is never indexed
IndexAxisShort(k, len, P) ==
    LET hit == {idx \in Range(len \div P) : k \in Slice(idx * P, (idx + 1) * P, len)}
    IN IF hit = {} THEN 0 ELSE MaxOf(hit)

\* for idx in range(D // P + 1): px[idx*P:(idx+1)*P] = idx, on zeros
IndexAxis(k, len, P) ==
    LET hit == {idx \in Range(len \div P + 1) : k \in Slice(idx * P, (idx + 1) * P, len)}
    IN IF hit = {} THEN 0 ELSE MaxOf(hit)

_make_pixel_indexer(dx, dy, P) ==
    [px_x |-> [p \in Pixels(dy, dx) |-> IndexAxis(p[2], dx, P)],
     px_y |-> [p \in Pixels(dy, dx) |-> IndexAxis(p[1], dy, P)]]

\* granule[k]: the pixels inside scene k's rasterized, flipped footprint
_mask_by_id(dx, dy, ids, granule) ==
    LET m == [k \in DOMAIN ids |->
                 [p \in Pixels(dy, dx) |-> IF p \in granule[k] THEN 1 ELSE 0]]
    IN [mask_arr |-> m,
        fills |-> [k \in DOMAIN ids |->
                      [sum |-> Sum2(m[k], dy, dx), size |-> dy * dx]]]

\* fill > 0.95
Exceeds(f) == f.sum * 100 > 95 * f.size

\* mutant: the best-filled scene instead of the first one over the threshold
BestOver(ids, fl) ==
    ids[MinOf({k \in DOMAIN fl : \A j \in DOMAIN fl : fl[j].sum <= fl[k].sum})]

\* image_ids[np.where(np.array(fills) > 0.95)[0].min()]
FirstOver(ids, fl) == ids[MinOf({k \in DOMAIN fl : Exceeds(fl[k])})]

\* mask_arr[..., :k].sum(axis=-1) at pixel p
SumBefore(m, p, k) == SumTo([j \in Range(k) |-> m[j][p]], k)

\* mutant: the earlier layers are not subtracted
_make_alpha_mask_raw(dx, dy, ids, m) ==
    [k \in DOMAIN ids |-> [p \in Pixels(dy, dx) |-> m[k][p]]]

_make_alpha_mask(dx, dy, ids, m) ==
    [k \in DOMAIN ids |->
        [p \in Pixels(dy, dx) |->
            IF k = 0 THEN m[0][p]
            ELSE Clip(m[k][p] - SumBefore(m, p, k), 0, 1)]]

\* list(set(zip(px_x[alpha[:,:,k] > 0], px_y[alpha[:,:,k] > 0]))) per scene
MakeRunIdx(dx, dy, ids, alpha, pxx, pxy) ==
    [k \in DOMAIN ids |->
        [id |-> ids[k],
         vv |-> {<<pxx[p], pxy[p]>> : p \in {q \in Pixels(dy, dx) : alpha[k][q] > 0}}]]

\* what the remote service holds for scene id at grid position (row, col)
GEE_pixel(id, row, col) == (id * 64 + row) * 64 + col

\* _get_GEE_arr for patch (ix, iy): a P x P array, arr[r][c]
_get_GEE_arr(id, ix, iy, P) ==
    [rc \in Range(P) \X Range(P) |-> GEE_pixel(id, iy * P + rc[1], ix * P + rc[2])]

\* buffer pixels of im_arr[iy*P:(iy+1)*P, ix*P:(ix+1)*P]
PatchPixels(dx, dy, ix, iy, P) ==
    Slice(iy * P, (iy + 1) * P, dy) \X Slice(ix * P, (ix + 1) * P, dx)

\* line 271: unconditional patch assignment of the fast path
FillSinglePatch(buf, dx, dy, id, ix, iy, P) ==
    LET arr == _get_GEE_arr(id, ix, iy, P)
        tgt == PatchPixels(dx, dy, ix, iy, P)
    IN [p \in Pixels(dy, dx) |->
           IF p \in tgt THEN arr[<<p[1] - iy * P, p[2] - ix * P>>] ELSE buf[p]]

\* mutant: the whole patch slice, im_mask dropped
MosaicWriteSetUnmasked(layer, dx, dy, ix, iy, P) == PatchPixels(dx, dy, ix, iy, P)

\* pixels line 316 assigns: the patch slice under im_mask
MosaicWriteSet(layer, dx, dy, ix, iy, P) ==
    {p \in PatchPixels(dx, dy, ix, iy, P) : layer[p] > 0}

\* mutant: the patch is read from the lower-left corner (y offset from the
\* southern edge), so rows come out mirrored within the grid
FillMosaicPatchFlipped(buf, layer, dx, dy, id, ix, iy, P) ==
    LET tgt == MosaicWriteSet(layer, dx, dy, ix, iy, P)
    IN [p \in Pixels(dy, dx) |->
           IF p \in tgt THEN GEE_pixel(id, dy - 1 - p[1], p[2]) ELSE buf[p]]

\* lines 314-316: masked patch assignment of the multi-scene path
FillMosaicPatch(buf, layer, dx, dy, id, ix, iy, P) ==
    LET arr == _get_GEE_arr(id, ix, iy, P)
        tgt == MosaicWriteSet(layer, dx, dy, ix, iy, P)
    IN [p \in Pixels(dy, dx) |->
           IF p \in tgt THEN arr[<<p[1] - iy * P, p[2] - ix * P>>] ELSE buf[p]]

\* position of the next dict item with patches to fetch, from k on
NextItem(run, n, k) == MinOf({j \in Range(n) : j >= k /\ run[j].vv # {}} \cup {n})

\* range(D // P + 1): the loop bounds of _fill_single_id
SingleRange(d, P) == Range(d \div P + 1)

\* rasterio.open(width=shape[0], height=shape[1], count=len(BANDS)) followed by
\* dst.write(np.transpose(im_arr, [2, 0, 1])): the write goes through only when
\* the array is (count, height, width); otherwise rasterio raises
_write_rio(shape) ==
    LET w == shape[1]
        h == shape[2]
        data == <<shape[3], shape[1], shape[2]>>
    IN [opened |-> TRUE, width |-> w, height |-> h, count |-> NumBands,
        written |-> (data = <<NumBands, h, w>>)]

\* ------------------------------------------------------------------ inputs
\* footprints rasterized into the grid.  A tile is far larger than the area of
\* interest, so a footprint covers the grid up to one tile edge: the left or
\* right k columns, or the top or bottom k rows (k = 0: none; all: the grid)
Footprints(dx, dy) ==
    {Range(dy) \X Slice(0, k, dx) : k \in 0 .. dx}
        \cup {Range(dy) \X Slice(dx - k, dx, dx) : k \in 0 .. dx}
        \cup {Slice(0, k, dy) \X Range(dx) : k \in 0 .. dy}
        \cup {Slice(dy - k, dy, dy) \X Range(dx) : k \in 0 .. dy}
\* footprints that miss at most MaxCut columns at the left or at the right
NearFull(dx, dy) ==
    {Range(dy) \X Slice(0, dx - k, dx) : k \in 0 .. MaxCut}
        \cup {Range(dy) \X Slice(k, dx, dx) : k \in 0 .. MaxCut}
Catalog(n) == [k \in Range(n) |-> k + 1]
Lats == (-90 * Res) .. (90 * Res)
Lons == (-180 * Res) .. (180 * Res)

\* -------------------------------------------------------------------- Init
NoRaster == [opened |-> FALSE, width |-> 0, height |-> 0, count |-> 0, written |-> FALSE]

InitCommon ==
    /\ pc = "idle"
    /\ Dx = 0 /\ Dy = 0
    /\ image_ids = << >>
    /\ px_x = << >> /\ px_y = << >>
    /\ mask_arr = << >> /\ fills = << >>
    /\ do_id = 0
    /\ alpha_mask = << >>
    /\ run_idx = << >>
    /\ ii = 0 /\ vv = {}
    /\ ii_x = 0 /\ ii_y = 0
    /\ im_arr = << >>
    /\ calls = EmptyBag
    /\ writes = << >>
    /\ raster = NoRaster
    /\ error = "none"
    /\ lat = 0 /\ lon = 0 /\ zone_str = << >>

\* RESTMosaic(patch_size=...)
Init == InitCommon /\ PATCH_SIZE \in PatchSizes
InitWide == InitCommon /\ PATCH_SIZE = WidePatch

\* ----------------------------------------------------------------- actions
\* mosaic(), lines 128-148: grid, catalog ids, pixel indexer, masks and fills.
\* The area of interest is not degenerate: the grid has at least one pixel.
MosaicBegin(dx, dy, n, granule) ==
    /\ Dx' = dx /\ Dy' = dy
    /\ image_ids' = Catalog(n)
    /\ LET ix == _make_pixel_indexer(dx, dy, PATCH_SIZE)
           mk == _mask_by_id(dx, dy, Catalog(n), granule)
       IN /\ px_x' = ix.px_x /\ px_y' = ix.px_y
          /\ mask_arr' = mk.mask_arr /\ fills' = mk.fills
    /\ pc' = "decide"
    /\ UNCHANGED <<PATCH_SIZE, do_id, alpha_mask, run_idx, ii, vv, ii_x, ii_y,
                   im_arr, calls, writes, raster, error, utmVars>>

Mosaic ==
    /\ pc = "idle"
    /\ \E dx \in 1 .. MaxDx, dy \in 1 .. MaxDy, n \in 0 .. MaxN :
          \E granule \in [Range(n) -> Footprints(dx, dy)] :
              MosaicBegin(dx, dy, n, granule)

MosaicWide ==
    /\ pc = "idle"
    /\ \E n \in 0 .. MaxN :
          \E granule \in [Range(n) -> NearFull(WideDx, 1)] :
              MosaicBegin(WideDx, 1, n, granule)

\* lines 151-156 and 249: a scene fills more than 95%: single-scene fast path
UseSingle ==
    /\ pc = "decide"
    /\ \E k \in DOMAIN fills : Exceeds(fills[k])
    /\ do_id' = FirstOver(image_ids, fills)
    /\ im_arr' = [p \in Pixels(Dy, Dx) |-> NODATA]
    /\ writes' = [p \in Pixels(Dy, Dx) |-> 0]
    /\ ii_x' = 0 /\ ii_y' = 0
    /\ pc' = "fill_single"
    /\ UNCHANGED <<PATCH_SIZE, Dx, Dy, image_ids, px_x, px_y, mask_arr, fills,
                   alpha_mask, run_idx, ii, vv, calls, raster, error, utmVars>>

\* lines 158-169 and 292: alpha partition and the per-scene patch lists
UseMulti ==
    /\ pc = "decide"
    /\ ~ \E k \in DOMAIN fills : Exceeds(fills[k])
    /\ LET n == Cardinality(DOMAIN image_ids)
           alpha == _make_alpha_mask(Dx, Dy, image_ids, mask_arr)
           run == MakeRunIdx(Dx, Dy, image_ids, alpha, px_x, px_y)
           first == NextItem(run, n, 0)
       IN /\ alpha_mask' = alpha
          /\ run_idx' = run
          /\ ii' = first
          /\ vv' = IF first < n THEN run[first].vv ELSE {}
          /\ pc' = IF first < n THEN "fill_mosaic" ELSE "write"
    /\ im_arr' = [p \in Pixels(Dy, Dx) |-> NODATA]
    /\ writes' = [p \in Pixels(Dy, Dx) |-> 0]
    /\ UNCHANGED <<PATCH_SIZE, Dx, Dy, image_ids, px_x, px_y, mask_arr, fills,
                   do_id, ii_x, ii_y, calls, raster, error, utmVars>>

\* one iteration of the loops of _fill_single_id, the fetch answering
FillSingleOk ==
    /\ pc = "fill_single"
    /\ calls' = calls (+) SetToBag({<<do_id, ii_x, ii_y>>})
    /\ im_arr' = FillSinglePatch(im_arr, Dx, Dy, do_id, ii_x, ii_y, PATCH_SIZE)
    /\ writes' = [p \in Pixels(Dy, Dx) |->
                     IF p \in PatchPixels(Dx, Dy, ii_x, ii_y, PATCH_SIZE)
                     THEN writes[p] + 1 ELSE writes[p]]
    /\ IF ii_y + 1 \in SingleRange(Dy, PATCH_SIZE)
       THEN ii_y' = ii_y + 1 /\ ii_x' = ii_x /\ pc' = pc
       ELSE IF ii_x + 1 \in SingleRange(Dx, PATCH_SIZE)
       THEN ii_y' = 0 /\ ii_x' = ii_x + 1 /\ pc' = pc
       ELSE ii_y' = ii_y /\ ii_x' = ii_x /\ pc' = "write"
    /\ UNCHANGED <<PATCH_SIZE, Dx, Dy, image_ids, px_x, px_y, mask_arr, fills,
                   do_id, alpha_mask, run_idx, ii, vv, raster, error, utmVars>>

\* the fetch raises (session.post or np.load): nothing catches it
FillSingleFail ==
    /\ pc = "fill_single"
    /\ calls' = calls (+) SetToBag({<<do_id, ii_x, ii_y>>})
    /\ pc' = "failed"
    /\ error' = "fetch"
    /\ UNCHANGED <<PATCH_SIZE, Dx, Dy, image_ids, px_x, px_y, mask_arr, fills,
                   do_id, alpha_mask, run_idx, ii, vv, ii_x, ii_y, im_arr, writes,
                   raster, utmVars>>

\* one iteration of the inner loop of _fill_mosaic; the list of a scene comes
\* from a set, so its order is any order
FillMosaicOk ==
    /\ pc = "fill_mosaic"
    /\ \E patch \in vv :
          LET id == run_idx[ii].id
              n == Cardinality(DOMAIN image_ids)
              rest == vv \ {patch}
              nxt == NextItem(run_idx, n, ii + 1)
          IN /\ calls' = calls (+) SetToBag({<<id, patch[1], patch[2]>>})
             /\ im_arr' = FillMosaicPatch(im_arr, alpha_mask[ii], Dx, Dy, id,
                                          patch[1], patch[2], PATCH_SIZE)
             /\ writes' = [p \in Pixels(Dy, Dx) |->
                              IF p \in MosaicWriteSet(alpha_mask[ii], Dx, Dy,
                                                      patch[1], patch[2], PATCH_SIZE)
                              THEN writes[p] + 1 ELSE writes[p]]
             /\ IF rest # {}
                THEN vv' = rest /\ ii' = ii /\ pc' = pc
                ELSE /\ ii' = nxt
                     /\ vv' = IF nxt < n THEN run_idx[nxt].vv ELSE {}
                     /\ pc' = IF nxt < n THEN "fill_mosaic" ELSE "write"
    /\ UNCHANGED <<PATCH_SIZE, Dx, Dy, image_ids, px_x, px_y, mask_arr, fills,
                   do_id, alpha_mask, run_idx, ii_x, ii_y, raster, error, utmVars>>

\* mutant: the failed fetch is noted and the loop goes on to the next patch
FillMosaicFailSkipped ==
    /\ pc = "fill_mosaic"
    /\ \E patch \in vv :
          LET n == Cardinality(DOMAIN image_ids)
              rest == vv \ {patch}
              nxt == NextItem(run_idx, n, ii + 1)
          IN /\ calls' = calls (+) SetToBag({<<run_idx[ii].id, patch[1], patch[2]>>})
             /\ IF rest # {}
                THEN vv' = rest /\ ii' = ii /\ pc' = pc
                ELSE /\ ii' = nxt
                     /\ vv' = IF nxt < n THEN run_idx[nxt].vv ELSE {}
                     /\ pc' = IF nxt < n THEN "fill_mosaic" ELSE "write"
    /\ error' = "fetch"
    /\ UNCHANGED <<PATCH_SIZE, Dx, Dy, image_ids, px_x, px_y, mask_arr, fills,
                   do_id, alpha_mask, run_idx, ii_x, ii_y, im_arr, writes, raster,
                   utmVars>>

FillMosaicFail ==
    /\ pc = "fill_mosaic"
    /\ \E patch \in vv :
          calls' = calls (+) SetToBag({<<run_idx[ii].id, patch[1], patch[2]>>})
    /\ pc' = "failed"
    /\ error' = "fetch"
    /\ UNCHANGED <<PATCH_SIZE, Dx, Dy, image_ids, px_x, px_y, mask_arr, fills,
                   do_id, alpha_mask, run_idx, ii, vv, ii_x, ii_y, im_arr, writes,
                   raster, utmVars>>

\* lines 177-186 with cloud_dest unset: the raster is opened and written
WriteRio ==
    /\ pc = "write"
    /\ raster' = _write_rio(<<Dy, Dx, NumBands>>)
    /\ pc' = IF raster'.written THEN "done" ELSE "failed"
    /\ error' = IF raster'.written THEN "none" ELSE "write"
    /\ UNCHANGED <<PATCH_SIZE, Dx, Dy, image_ids, px_x, px_y, mask_arr, fills,
                   do_id, alpha_mask, run_idx, ii, vv, ii_x, ii_y, im_arr, calls,
                   writes, utmVars>>

\* a call of get_utm_zone
GetUtmZone ==
    /\ zone_str = << >>
    /\ \E la \in Lats, lo \in Lons :
          /\ lat' = la /\ lon' = lo
          /\ zone_str' = get_utm_zone(la, lo)
    /\ UNCHANGED buildVars

Next == Mosaic \/ UseSingle \/ UseMulti \/ FillSingleOk \/ FillSingleFail
            \/ FillMosaicOk \/ FillMosaicFail \/ WriteRio
NextWide == MosaicWide \/ UseSingle \/ UseMulti \/ FillSingleOk \/ FillSingleFail
            \/ FillMosaicOk \/ FillMosaicFail \/ WriteRio
NextUtm == GetUtmZone

Spec == Init /\ [][Next]_vars
SpecWide == InitWide /\ [][NextWide]_vars
SpecUtm == Init /\ [][NextUtm]_vars


\* ------------------------------------------------ vocabulary of the claims
\* (stated on the state alone; patch and rectangle arithmetic is written out
\* here independently of the operators above)
Started == pc \notin {"idle", "decide"}
SinglePath == Started /\ do_id # 0
MultiPath == Started /\ do_id = 0
\* the fill loop ran to its end (the build is at, or past, the raster step)
FillDone == pc \in {"write", "done"} \/ (pc = "failed" /\ error = "write")
Scenes == DOMAIN image_ids
Grid == Pixels(Dy, Dx)
Covering(p) == {k \in Scenes : mask_arr[k][p] = 1}
Owning(p) == {k \in Scenes : alpha_mask[k][p] = 1}
CeilDiv(a, b) == (a + b - 1) \div b
\* patch coordinates <<px, py>> holding a pixel that layer k owns
OwnedPatches(k) ==
    {<<p[2] \div PATCH_SIZE, p[1] \div PATCH_SIZE>> :
        p \in {q \in Grid : alpha_mask[k][q] = 1}}
CalledPatches(id) == {<<c[2], c[3]>> : c \in {d \in BagToSet(calls) : d[1] = id}}
Tasks == UNION {{<<k, patch>> : patch \in run_idx[k].vv} : k \in DOMAIN run_idx}
TaskWrites(t) == MosaicWriteSet(alpha_mask[t[1]], Dx, Dy, t[2][1], t[2][2], PATCH_SIZE)
TaskRect(t) ==
    {p \in Grid : /\ t[2][2] * PATCH_SIZE <= p[1] /\ p[1] < (t[2][2] + 1) * PATCH_SIZE
                  /\ t[2][1] * PATCH_SIZE <= p[2] /\ p[2] < (t[2][1] + 1) * PATCH_SIZE}
RunTask(buf, t) ==
    FillMosaicPatch(buf, alpha_mask[t[1]], Dx, Dy, run_idx[t[1]].id, t[2][1], t[2][2],
                    PATCH_SIZE)

\* ------------------------------------------------------------------ claims

\* C1: the alpha layers produced by _make_alpha_mask are 0/1 layers, no pixel is
\* 1 in two layers, and a pixel is 1 in some alpha layer exactly when it is 1 in
\* some availability mask.
C1_AlphaPartition ==
    MultiPath =>
        \A p \in Grid :
            /\ \A k \in Scenes : alpha_mask[k][p] \in {0, 1}
            /\ Cardinality(Owning(p)) <= 1
            /\ (Owning(p) # {}) <=> (Covering(p) # {})

\* two scenes overlap in one pixel while the later one also covers a pixel alone
C1_Witness ==
    /\ MultiPath
    /\ \E p, q \in Grid :
          /\ Covering(p) = {0, 1}
          /\ Covering(q) = {1}
          /\ Owning(p) = {0} /\ Owning(q) = {1}

\* C2: when some scene fills more than 95% of the grid the fast path runs and
\* every fetch goes to the lowest-index such scene, whatever the later fills;
\* when none does, the multi-scene partition path runs.
C2_FirstOverThreshold ==
    Started =>
        LET over == {k \in Scenes :
                        Cardinality({p \in Grid : mask_arr[k][p] = 1}) * 100
                            > 95 * Dx * Dy}
        IN IF over # {}
           THEN /\ do_id = image_ids[MinOf(over)]
                /\ run_idx = << >>
                /\ pc # "fill_mosaic"
                /\ \A c \in BagToSet(calls) : c[1] = do_id
           ELSE /\ do_id = 0
                /\ DOMAIN run_idx = Scenes
                /\ pc # "fill_single"

\* the first scene is over the threshold, a later one fills strictly more, and
\* the fast path has fetched the whole grid
C2_Witness ==
    /\ SinglePath /\ FillDone
    /\ calls # EmptyBag
    /\ 1 \in Scenes
    /\ do_id = image_ids[0]
    /\ fills[1].sum > fills[0].sum

\* C3: in the multi-scene path no (scene, patch) pair is fetched twice, only
\* patches holding a pixel the scene owns are fetched, and once the fill is over
\* each scene has as many fetch calls as patches holding one of its pixels.
C3_OneFetchPerOwnedPatch ==
    MultiPath =>
        /\ \A c \in BagToSet(calls) : CopiesIn(c, calls) = 1
        /\ \A k \in Scenes : CalledPatches(image_ids[k]) \subseteq OwnedPatches(k)
        /\ FillDone =>
              \A k \in Scenes :
                  /\ CalledPatches(image_ids[k]) = OwnedPatches(k)
                  /\ BagCardinality([c \in {d \in BagToSet(calls) : d[1] = image_ids[k]}
                                         |-> calls[c]])
                        = Cardinality(OwnedPatches(k))

\* a scene owning pixels in two patches, more pixels than patches
C3_Witness ==
    /\ MultiPath /\ FillDone
    /\ \E k \in Scenes :
          /\ Cardinality(OwnedPatches(k)) = 2
          /\ Cardinality({p \in Grid : alpha_mask[k][p] = 1}) > 2
          /\ Cardinality(CalledPatches(image_ids[k])) = 2

\* C4: with no candidate scene the raster is never opened, and a build that
\* ends has ended with NoImageryAvailable.
C4_NoImageryRejected ==
    (pc # "idle" /\ Scenes = {}) =>
        /\ ~ raster.opened
        /\ pc \in {"done", "failed"} => error = "NoImageryAvailable"

\* C5: after a multi-scene fill every pixel some scene covers holds the value of
\* the lowest-index covering scene at that pixel, every other pixel is still
\* nodata, and when the masks cover the grid no nodata is left.
C5_LowestIndexWins ==
    (MultiPath /\ FillDone) =>
        /\ \A p \in Grid :
              IF Covering(p) = {}
              THEN im_arr[p] = NODATA
              ELSE im_arr[p] = GEE_pixel(image_ids[MinOf(Covering(p))], p[1], p[2])
        /\ (\A p \in Grid : Covering(p) # {}) => (\A p \in Grid : im_arr[p] # NODATA)

\* scene A covers columns on the left, scene B columns on the right, they
\* overlap, together they cover the grid, and B's pixels are in the buffer
C5_Witness ==
    /\ MultiPath /\ FillDone
    /\ Scenes = {0, 1}
    /\ \E a, b \in 1 .. Dx :
          /\ a + b > Dx /\ a < Dx /\ b < Dx
          /\ \A p \in Grid : mask_arr[0][p] = (IF p[2] < a THEN 1 ELSE 0)
          /\ \A p \in Grid : mask_arr[1][p] = (IF p[2] >= Dx - b THEN 1 ELSE 0)
    /\ \A p \in Grid : im_arr[p] # NODATA
    /\ \E p \in Grid : im_arr[p] = GEE_pixel(image_ids[1], p[1], p[2])

\* C6: get_utm_zone returns floor((lon+180)/6)+1 outside the Norway/Svalbard
\* bands and the override inside them (lon in [-180, 180)).
C6_UtmZone ==
    (zone_str # << >> /\ lon < 180 * Res) =>
        LET zone == IF Len(zone_str) = 1 THEN zone_str[1]
                    ELSE 10 * zone_str[1] + zone_str[2]
            norway == 56 * Res <= lat /\ lat < 64 * Res /\ 3 * Res <= lon /\ lon < 12 * Res
            svalbard == 72 * Res <= lat /\ lat < 84 * Res
        IN /\ Len(zone_str) \in {1, 2}
           /\ (Len(zone_str) = 2 => zone_str[1] # 0)
           /\ zone = (IF norway THEN 32
                      ELSE IF svalbard /\ 0 <= lon /\ lon < 9 * Res THEN 31
                      ELSE IF svalbard /\ 9 * Res <= lon /\ lon < 21 * Res THEN 33
                      ELSE IF svalbard /\ 21 * Res <= lon /\ lon < 33 * Res THEN 35
                      ELSE IF svalbard /\ 33 * Res <= lon /\ lon < 42 * Res THEN 37
                      ELSE (lon + 180 * Res) \div (6 * Res) + 1)
           /\ (lat = 60 * Res /\ lon = 5 * Res) => zone = 32
           /\ (lat = 75 * Res /\ lon = 15 * Res) => zone = 33

\* the Svalbard example: lat 75, lon 15 gives zone 33
C6_Witness == lat = 75 * Res /\ lon = 15 * Res /\ zone_str = <<3, 3>>

\* C7: a failed fetch is not skipped: the build stops there and the raster is
\* neither opened nor written.
C7_FetchFailureAborts ==
    error = "fetch" => (pc = "failed" /\ raster = NoRaster)

\* a fetch failed after earlier fetches had already filled part of the buffer
C7_Witness ==
    /\ error = "fetch" /\ pc = "failed"
    /\ \E p \in Grid : writes[p] > 0
    /\ \E p \in Grid : im_arr[p] = NODATA

\* C8: the fetch tasks of the multi-scene path write pairwise disjoint pixel
\* sets, each inside the buffer and inside the task's patch rectangle; no pixel
\* is assigned twice, any two tasks commute on the buffer, and the finished
\* buffer is the one fixed by the write sets, whatever the order of the tasks.
C8_DisjointWrites ==
    MultiPath =>
        LET W == [t \in Tasks |-> TaskWrites(t)]
            Pairs == {tt \in Tasks \X Tasks : tt[1] # tt[2]}
        IN /\ \A t \in Tasks : W[t] \subseteq TaskRect(t)
           /\ \A tt \in Pairs : W[tt[1]] \cap W[tt[2]] = {}
           /\ \A p \in Grid : writes[p] <= 1
           /\ pc = "fill_mosaic" =>
                 \A tt \in Pairs :
                     RunTask(RunTask(im_arr, tt[1]), tt[2])
                         = RunTask(RunTask(im_arr, tt[2]), tt[1])
           /\ FillDone =>
                 \A p \in Grid :
                     /\ writes[p] = Cardinality({t \in Tasks : p \in W[t]})
                     /\ \A t \in Tasks :
                           p \in W[t] => im_arr[p] = GEE_pixel(run_idx[t[1]].id, p[1], p[2])
                     /\ (\A t \in Tasks : p \notin W[t]) => im_arr[p] = NODATA

\* two scenes each own pixels of the same patch, and a scene has two patches
\* (whose order of fetching is free)
C8_Witness ==
    /\ MultiPath /\ FillDone
    /\ \E t1, t2 \in Tasks :
          /\ t1[1] # t2[1] /\ t1[2] = t2[2]
          /\ TaskWrites(t1) # {} /\ TaskWrites(t2) # {}
    /\ \E k \in DOMAIN run_idx : Cardinality(run_idx[k].vv) >= 2

\* C9: the fast path issues ceil(Dx/P) * ceil(Dy/P) fetches, each overlapping
\* the buffer, and writes every buffer pixel exactly once.
C9_SingleFetchCount ==
    (SinglePath /\ FillDone) =>
        /\ BagCardinality(calls) = CeilDiv(Dx, PATCH_SIZE) * CeilDiv(Dy, PATCH_SIZE)
        /\ \A c \in BagToSet(calls) : PatchPixels(Dx, Dy, c[2], c[3], PATCH_SIZE) # {}
        /\ \A p \in Grid : writes[p] = 1

\* C10: the raster of a build with imagery is declared with width Dx and height
\* Dy, the dimensions of the band-major array written into it.
C10_RasterDims ==
    (raster.opened /\ Scenes # {}) => (raster.width = Dx /\ raster.height = Dy)

====
